---- MODULE Spec2Model ----
(***************************************************************************)
(* A model of the devenv command line front-end (src/src/devenv/cli.py):   *)
(*   - the `test` command: grouping tests by tag, resolving the selection, *)
(*     and the per-test lifecycle loop with --keep-going / --debug;        *)
(*   - the GC-root bookkeeping: add_gc / symlink_force (registration) and  *)
(*     cleanup_symlinks (the sweep of the GC directory).                   *)
(* Three specifications share the module: SpecSel (selection), SpecRun     *)
(* (the test loop) and SpecFs (the GC directory).                          *)
(***************************************************************************)
EXTENDS Integers, Sequences, FiniteSets, TLC

VARIABLES
    \* ---- `test` command: inputs and selection (cli.py 700-723)
    tests,           \* the discovered test mapping, in iteration order
    names,           \* the NAMES arguments
    exclude,         \* the --exclude options
    tags,            \* the tag index: tag -> list of test names
    selected_tests,  \* the resolved selection
    keep_going,      \* --keep-going
    debug,           \* --debug
    given,           \* history: the NAMES arguments as typed
    \* ---- `test` command: the loop (cli.py 727-830)
    pc,              \* position of the process
    idx,             \* index in selected_tests of the current test
    has_processes,   \* cli.py 779/784
    p,               \* the log streamer handle of the current test (TRUE: a Popen)
    exc,             \* the exception in flight
    failed,          \* cli.py 728
    exit_status,     \* exit status of the process, -1 while it runs
    sandboxes,       \* the temporary directories that exist, by execution number
    supervisors,     \* executions whose process supervisor is running
    streamers,       \* executions whose `tail -f` subprocess is running
    hist,            \* history: one record per test execution started
    last_fail,       \* history: exit code of the last command that failed in this test
    phases,          \* history: the phases the current test went through, in order
    marker,          \* the GC-root marker .devenv/gc/ci the current test found
    \* ---- GC directory (cli.py 195-201, 269-281, 326-332)
    fs,              \* the entries of the GC directory tree and of the store directory
    store,           \* the store objects symlinks point at
    to_gc,           \* result of the last sweep: active symlinks
    removed_symlinks,\* result of the last sweep: removed symlinks
    cli,             \* the registering invocation: "up", or "exited" after a failure
    fsop,            \* history: the last file system operation and the state before it
    \* ---- concurrent registration and sweep (cli.py 269-281, 326-332)
    reg,             \* the registrars: position, name and path of each
    lock,            \* holder of the file lock of each symlink, 0 when free
    sweep,           \* the running cleanup_symlinks: position, listing, entry, log
    \* ---- process runner (cli.py 344-411)
    pidfile,         \* the marker file .devenv/processes.pid: existence and text
    procs,           \* what has each process id
    last_started,    \* history: pid of the supervisor started last, 0 when none
    procop,          \* history: the last two operations and the state before the last
    \* ---- run_command (cli.py 76-144)
    rc_in,           \* a call: the command line, DEVENV_NIX, who calls
    rc_out,          \* how the call ended and what became of the process
    \* ---- gc command (cli.py 241-266)
    gcrun            \* history: the last run of gc

selVars == <<tests, names, exclude, tags, selected_tests, keep_going, debug, given>>
runVars == <<pc, idx, has_processes, p, exc, failed, exit_status, sandboxes,
             supervisors, streamers, hist, last_fail, phases, marker>>
fsVars  == <<fs, store, to_gc, removed_symlinks, cli, fsop>>
concVars == <<reg, lock, sweep>>
procVars == <<pidfile, procs, last_started, procop>>
cmdVars == <<rc_in, rc_out>>
extVars == <<concVars, procVars, cmdVars, gcrun>>
vars    == <<selVars, runVars, fsVars, extVars>>

-----------------------------------------------------------------------------
(* Bounds of the model *)

MaxTests == 2      \* discovered tests
MaxNames == 2      \* NAMES arguments
MaxCode  == 2      \* exit codes 1..MaxCode of a failing command

TestIds   == {"t1", "t2", "local"}        \* names a test can have
TagIds    == {"local", "x"}               \* tags a test can declare
NameArgs  == {"t1", "local", "x", "zz"}   \* NAMES: literal, tag, both, unknown
ExclArgs  == {"t1", "local", "zz"}        \* --exclude values

\* sequences over S of length at most n
SeqsUpTo(S, n) == UNION {[1..k -> S] : k \in 0..n}

Range(s) == {s[i] : i \in DOMAIN s}

\* One value of the test declaration: `tags` may be missing from the JSON object.
\* A tags array carries each tag once (the tags of a test are a set).
TestValues ==
    [hasTags : {TRUE}, tags : {<<>>, <<"local">>, <<"x">>, <<"local", "x">>}]
    \cup [hasTags : {FALSE}, tags : {<<>>}]

\* The JSON object of the engine: keys are unique, iteration order is the order
\* of the document.
TestMappings ==
    {m \in SeqsUpTo([name : TestIds, val : TestValues], MaxTests) :
        \A i, j \in DOMAIN m : i # j => m[i].name # m[j].name}

-----------------------------------------------------------------------------
(* Grouping and selection, cli.py 705-723 *)

\* `name in tests`
InTests(ts, name) == \E i \in DOMAIN ts : ts[i].name = name

\* A slip in the default: no names select every tag.
DefaultNamesAllTags(ns) == IF ns = <<>> THEN <<"local", "x">> ELSE ns

\* cli.py 705-706
DefaultNames(ns) == IF ns = <<>> THEN <<"local">> ELSE ns

\* A slip in the grouping: the name is put in front of the list.
AddToTagInFront(idxmap, tag, name) ==
    IF tag \in DOMAIN idxmap
        THEN [idxmap EXCEPT ![tag] = <<name>> \o @]
        ELSE [t \in DOMAIN idxmap \cup {tag} |->
                 IF t = tag THEN <<name>> ELSE idxmap[t]]

\* cli.py 712-714: tags[tag].append(name), creating the list when the tag is new
AddToTag(idxmap, tag, name) ==
    IF tag \in DOMAIN idxmap
        THEN [idxmap EXCEPT ![tag] = Append(@, name)]
        ELSE [t \in DOMAIN idxmap \cup {tag} |->
                 IF t = tag THEN <<name>> ELSE idxmap[t]]

\* cli.py 711-714: the inner loop over one test's tags
RECURSIVE TagLoop(_, _, _, _)
TagLoop(idxmap, name, tgs, j) ==
    IF j > Len(tgs) THEN idxmap
    ELSE TagLoop(AddToTag(idxmap, tgs[j], name), name, tgs, j + 1)

\* cli.py 709-714: the outer loop over tests.items()
RECURSIVE GroupByTags(_, _, _)
GroupByTags(ts, i, idxmap) ==
    IF i > Len(ts) THEN idxmap
    ELSE GroupByTags(ts, i + 1, TagLoop(idxmap, ts[i].name, ts[i].val.tags, 1))

\* test["tags"] raises KeyError on a test without the key (cli.py 711)
TagsKeyError(ts) == \E i \in DOMAIN ts : ~ts[i].val.hasTags

\* cli.py 720: tags.get(name, {})
TagGet(idxmap, name) == IF name \in DOMAIN idxmap THEN idxmap[name] ELSE <<>>

\* A slip in the expansion: --exclude is not consulted.
RECURSIVE TagExpansionUnfiltered(_, _, _, _)
TagExpansionUnfiltered(tag_tests, excl, j, acc) ==
    IF j > Len(tag_tests) THEN acc
    ELSE TagExpansionUnfiltered(tag_tests, excl, j + 1, Append(acc, tag_tests[j]))

\* cli.py 721-723: the members of the tag group that are not excluded
RECURSIVE TagExpansion(_, _, _, _)
TagExpansion(tag_tests, excl, j, acc) ==
    IF j > Len(tag_tests) THEN acc
    ELSE TagExpansion(tag_tests, excl, j + 1,
                      IF tag_tests[j] \notin excl THEN Append(acc, tag_tests[j]) ELSE acc)

\* A slip in the literal part: the name is appended without the membership test.
LiteralPartUnchecked(ts, name, acc) == Append(acc, name)

\* cli.py 718-719: a literal test name is appended
LiteralPart(ts, name, acc) == IF InTests(ts, name) THEN Append(acc, name) ELSE acc

\* A slip in the selection: a test already selected is not selected again.
RECURSIVE Dedup(_)
Dedup(s) ==
    IF s = <<>> THEN <<>>
    ELSE LET r == Dedup(SubSeq(s, 1, Len(s) - 1))
         IN  IF s[Len(s)] \in Range(r) THEN r ELSE Append(r, s[Len(s)])

RECURSIVE SelectLoopDistinct(_, _, _, _, _, _)
SelectLoopDistinct(ns, ts, idxmap, excl, i, acc) ==
    IF i > Len(ns) THEN acc
    ELSE SelectLoopDistinct(ns, ts, idxmap, excl, i + 1,
                            Dedup(TagExpansion(TagGet(idxmap, ns[i]), excl, 1,
                                               LiteralPart(ts, ns[i], acc))))

\* cli.py 716-723
RECURSIVE SelectLoop(_, _, _, _, _, _)
SelectLoop(ns, ts, idxmap, excl, i, acc) ==
    IF i > Len(ns) THEN acc
    ELSE SelectLoop(ns, ts, idxmap, excl, i + 1,
                    TagExpansion(TagGet(idxmap, ns[i]), excl, 1,
                                 LiteralPart(ts, ns[i], acc)))


-----------------------------------------------------------------------------
(* The `test` command up to the resolved selection, cli.py 700-725 *)

NoExc == [kind |-> "none", code |-> 0, at |-> "-"]

\* The variables of the test loop before the loop is entered (cli.py 727-728).
RunIdle ==
    /\ idx = 0
    /\ has_processes = FALSE
    /\ p = FALSE
    /\ exc = NoExc
    /\ failed = <<>>
    /\ exit_status = -1
    /\ sandboxes = {}
    /\ supervisors = {}
    /\ streamers = {}
    /\ hist = <<>>
    /\ last_fail = 0
    /\ phases = <<>>
    /\ marker = <<>>

\* The GC directory is not touched by the selection or by the loop itself.
FsIdle ==
    /\ fs = <<>>
    /\ store = <<>>
    /\ to_gc = {}
    /\ removed_symlinks = {}
    /\ cli = "up"
    /\ fsop = <<>>

\* No registrar and no sweep runs beside the command.
ConcIdle ==
    /\ reg = <<>>
    /\ lock = <<>>
    /\ sweep = <<>>

\* No supervisor was started.
ProcIdle ==
    /\ pidfile = <<>>
    /\ procs = <<>>
    /\ last_started = 0
    /\ procop = <<>>

\* No call of run_command is looked at.
CmdIdle ==
    /\ rc_in = <<>>
    /\ rc_out = <<>>

ExtIdle ==
    /\ ConcIdle
    /\ ProcIdle
    /\ CmdIdle
    /\ gcrun = <<>>

\* State after the tests were gathered (cli.py 701-703).
InitSel ==
    /\ tests \in TestMappings
    /\ given \in SeqsUpTo(NameArgs, MaxNames)
    /\ names = given
    /\ exclude \in SUBSET ExclArgs
    /\ tags = <<>>
    /\ selected_tests = <<>>
    /\ keep_going = FALSE
    /\ debug = FALSE
    /\ pc = "start"
    /\ RunIdle
    /\ FsIdle
    /\ ExtIdle

\* cli.py 705-725: default names, tag index, selection
Resolve ==
    /\ pc = "start"
    /\ ~TagsKeyError(tests)
    /\ names' = DefaultNames(names)
    /\ tags' = GroupByTags(tests, 1, <<>>)
    /\ selected_tests' = SelectLoop(names', tests, tags', exclude, 1, <<>>)
    /\ pc' = "loop"
    /\ UNCHANGED <<tests, exclude, keep_going, debug, given>>
    /\ UNCHANGED <<idx, has_processes, p, exc, failed, exit_status, sandboxes,
                   supervisors, streamers, hist, last_fail, phases, marker>>
    /\ UNCHANGED fsVars
    /\ UNCHANGED extVars

\* cli.py 711: test["tags"] raises KeyError, which nothing catches: the command
\* dies with a traceback before anything is selected.
ResolveKeyError ==
    /\ pc = "start"
    /\ TagsKeyError(tests)
    /\ names' = DefaultNames(names)
    /\ exc' = [kind |-> "KeyError", code |-> 1, at |-> "tags"]
    /\ exit_status' = 1
    /\ pc' = "crashed"
    /\ UNCHANGED <<tests, exclude, tags, selected_tests, keep_going, debug, given>>
    /\ UNCHANGED <<idx, has_processes, p, failed, sandboxes, supervisors, streamers,
                   hist, last_fail, phases, marker>>
    /\ UNCHANGED fsVars
    /\ UNCHANGED extVars

NextSel == Resolve \/ ResolveKeyError

SpecSel == InitSel /\ [][NextSel]_vars

-----------------------------------------------------------------------------
(* The test loop, cli.py 727-830 *)

\* What one external command can do: return, fail with a non-zero exit code, or be
\* cut short by a keyboard interrupt.
Outcomes ==
    {[res |-> "ok", code |-> 0], [res |-> "kbd", code |-> 0]}
    \cup {[res |-> "fail", code |-> c] : c \in 1..MaxCode}

\* run_command without dont_exit, cli.py 117-144: a non-zero exit status c of the
\* command cmd becomes exit(c), that is SystemExit(c); a keyboard interrupt
\* passes through.
RunCommand(cmd, o) ==
    CASE o.res = "ok"   -> NoExc
      [] o.res = "fail" -> [kind |-> "exit", code |-> o.code, at |-> cmd]
      [] o.res = "kbd"  -> [kind |-> "kbd", code |-> 0, at |-> cmd]

\* history: what the command did to the current execution
Noted(h, i, o) ==
    [h EXCEPT ![i].cmdFailed = @ \/ o.res = "fail",
              ![i].interrupted = @ \/ o.res = "kbd"]

NotedFail(lf, o) == IF o.res = "fail" THEN o.code ELSE lf

\* history: what the test script did in the current execution
NotedScript(h, i, o) == [h EXCEPT ![i].script = o.res]

\* history: how the current execution ended
Ended(h, i, how) == [h EXCEPT ![i].outcome = how]

\* How an execution that an exception leaves has ended.
EndedBy(e) == IF e.kind = "kbd" THEN "interrupted" ELSE "failed"

\* The GC-root marker .devenv/gc/ci as a test finds it after the build: missing,
\* or there with a content, taken word by word.
NoMarker == [exists |-> FALSE, text |-> <<>>]
Markers ==
    {NoMarker} \cup
    {[exists |-> TRUE, text |-> t] : t \in {<<"x">>, <<"-devenv-up">>, <<"x", "-devenv-up">>}}

\* A slip in the detection: the marker being there is enough.
HasProcessesIfMarker(mk) == mk.exists

\* cli.py 784-786: os.path.exists(".devenv/gc/ci") and "-devenv-up" in the
\* output of `cat .devenv/gc/ci`
HasProcesses(mk) ==
    mk.exists /\ \E i \in DOMAIN mk.text : mk.text[i] = "-devenv-up"

\* Exit status of the process when an exception leaves test() uncaught:
\* SystemExit carries its code; anything else ends the command with status 1.
UncaughtStatus(e) == IF e.kind = "exit" THEN e.code ELSE 1

\* "aborted": a keyboard interrupt left test(); "raised": another exception did.
UncaughtPc(e) == IF e.kind = "kbd" THEN "aborted" ELSE "raised"

\* A slip in the handler: --debug is looked at before --keep-going.
HandlerChoiceDebugFirst(e, kg, dbg) ==
    IF e.kind = "kbd" THEN "reraise"
    ELSE IF dbg THEN "shell"
    ELSE IF kg THEN "record"
    ELSE "raise"

\* cli.py 808-827: which branch of the exception handler is taken
HandlerChoice(e, kg, dbg) ==
    IF e.kind = "kbd" THEN "reraise"
    ELSE IF kg THEN "record"
    ELSE IF dbg THEN "shell"
    ELSE "raise"

\* A slip after the loop: the failures are reported with the ordinary status.
FinalStatusOrdinary(kg, fl) == IF kg /\ fl # <<>> THEN 1 ELSE 0

\* cli.py 828-830: the exit status after the loop
FinalStatus(kg, fl) == IF kg /\ fl # <<>> THEN 2 ELSE 0

\* cli.py 799-807: an exception raised inside `finally` replaces the one in flight
AfterTeardown(pending, raised) ==
    IF raised.kind # "none" THEN raised ELSE pending

\* The discovered tests of the loop's specification.
RunTests ==
    << [name |-> "t1", val |-> [hasTags |-> TRUE, tags |-> <<"local">>]],
       [name |-> "t2", val |-> [hasTags |-> TRUE, tags |-> <<"local", "x">>]] >>

\* State after the tests were gathered (cli.py 701-703), for the loop.
InitRun ==
    /\ tests = RunTests
    /\ given \in SeqsUpTo({"t1", "t2", "x"}, MaxNames)
    /\ names = given
    /\ exclude = {}
    /\ tags = <<>>
    /\ selected_tests = <<>>
    /\ keep_going \in BOOLEAN
    /\ debug \in BOOLEAN
    /\ pc = "start"
    /\ RunIdle
    /\ FsIdle
    /\ ExtIdle

\* cli.py 730-733: the next selected test gets a fresh temporary directory
StartTest ==
    /\ pc = "loop"
    /\ idx < Len(selected_tests)
    /\ idx' = idx + 1
    /\ sandboxes' = sandboxes \cup {idx + 1}
    /\ hist' = Append(hist, [name |-> selected_tests[idx + 1],
                             cmdFailed |-> FALSE, interrupted |-> FALSE,
                             script |-> "-", outcome |-> "running"])
    /\ last_fail' = 0
    /\ phases' = <<>>
    /\ marker' = NoMarker
    /\ pc' = "materialize"
    /\ UNCHANGED <<has_processes, p, exc, failed, exit_status, supervisors, streamers>>
    /\ UNCHANGED selVars
    /\ UNCHANGED fsVars
    /\ UNCHANGED extVars

\* cli.py 734-779: the sandbox is filled, outside the try block: an error here
\* leaves test() at once, removing the temporary directory on the way.
Materialize(o) ==
    /\ pc = "materialize"
    /\ hist' = IF InTests(tests, selected_tests[idx]) /\ o.res = "ok"
                 THEN hist
                 ELSE Ended(Noted(hist, idx, o), idx,
                            IF o.res = "kbd" THEN "interrupted" ELSE "failed")
    /\ last_fail' = NotedFail(last_fail, o)
    /\ phases' = Append(phases, "materialize")
    /\ UNCHANGED marker
    /\ IF ~InTests(tests, selected_tests[idx])
         THEN /\ exc' = [kind |-> "KeyError", code |-> 1, at |-> "tests"]
              /\ pc' = "crashed"
              /\ exit_status' = 1
              /\ sandboxes' = sandboxes \ {idx}
              /\ UNCHANGED has_processes
         ELSE IF o.res = "ok"
         THEN /\ has_processes' = FALSE
              /\ pc' = "ci"
              /\ UNCHANGED <<exc, exit_status, sandboxes>>
         ELSE /\ exc' = RunCommand("materialize", o)
              /\ pc' = UncaughtPc(exc')
              /\ exit_status' = UncaughtStatus(exc')
              /\ sandboxes' = sandboxes \ {idx}
              /\ UNCHANGED has_processes
    /\ UNCHANGED <<idx, p, failed, supervisors, streamers>>
    /\ UNCHANGED selVars
    /\ UNCHANGED fsVars
    /\ UNCHANGED extVars

\* cli.py 781-782: devenv ci
Ci(o) ==
    /\ pc = "ci"
    /\ hist' = Noted(hist, idx, o)
    /\ last_fail' = NotedFail(last_fail, o)
    /\ exc' = RunCommand("ci", o)
    /\ pc' = IF o.res = "ok" THEN "detect" ELSE "handler"
    /\ phases' = Append(phases, "build")
    /\ UNCHANGED marker
    /\ UNCHANGED <<idx, has_processes, p, failed, exit_status, sandboxes,
                   supervisors, streamers>>
    /\ UNCHANGED selVars
    /\ UNCHANGED fsVars
    /\ UNCHANGED extVars

\* cli.py 784-786 and 796-797: the marker is missing, or is read and does not
\* name the supervisor
DetectNone(mk, o) ==
    /\ pc = "detect"
    /\ ~mk.exists => o.res = "ok"
    /\ o.res = "ok" => ~HasProcesses(mk)
    /\ marker' = mk
    /\ phases' = Append(phases, "detect")
    /\ hist' = Noted(hist, idx, o)
    /\ last_fail' = NotedFail(last_fail, o)
    /\ exc' = RunCommand("cat", o)
    /\ IF o.res = "ok"
         THEN /\ has_processes' = FALSE
              /\ p' = FALSE
              /\ pc' = "script"
         ELSE /\ pc' = "handler"
              /\ UNCHANGED <<has_processes, p>>
    /\ UNCHANGED <<idx, failed, exit_status, sandboxes, supervisors, streamers>>
    /\ UNCHANGED selVars
    /\ UNCHANGED fsVars
    /\ UNCHANGED extVars

\* cli.py 784-795: the marker names the supervisor: devenv up -d, then tail -f
DetectAndUp(mk, o) ==
    /\ pc = "detect"
    /\ HasProcesses(mk)
    /\ marker' = mk
    /\ phases' = phases \o <<"detect", "up">>
    /\ has_processes' = TRUE
    /\ hist' = Noted(hist, idx, o)
    /\ last_fail' = NotedFail(last_fail, o)
    /\ exc' = RunCommand("up", o)
    /\ IF o.res = "ok"
         THEN /\ supervisors' = supervisors \cup {idx}
              /\ streamers' = streamers \cup {idx}
              /\ p' = TRUE
              /\ pc' = "script"
         ELSE /\ pc' = "handler"
              /\ UNCHANGED <<supervisors, streamers, p>>
    /\ UNCHANGED <<idx, failed, exit_status, sandboxes>>
    /\ UNCHANGED selVars
    /\ UNCHANGED fsVars
    /\ UNCHANGED extVars

\* cli.py 799-802: the test script, when the sandbox has one
Script(exists, o) ==
    /\ pc = "script"
    /\ ~exists => o.res = "ok"
    /\ hist' = NotedScript(Noted(hist, idx, o), idx, o)
    /\ phases' = IF exists THEN Append(phases, "script") ELSE phases
    /\ UNCHANGED marker
    /\ last_fail' = NotedFail(last_fail, o)
    /\ exc' = RunCommand("script", o)
    /\ pc' = "finally"
    /\ UNCHANGED <<idx, has_processes, p, failed, exit_status, sandboxes,
                   supervisors, streamers>>
    /\ UNCHANGED selVars
    /\ UNCHANGED fsVars
    /\ UNCHANGED extVars

\* A slip: the temporary directory of a test that passed is left behind.
LeaveTryKeepsSandbox(e) ==
    /\ pc' = IF e.kind = "none" THEN "loop" ELSE "handler"
    /\ sandboxes' = sandboxes

\* Leaving the try statement: to the handler with an exception in flight, else
\* out of the with block (the temporary directory is removed) to the next test.
LeaveTry(e) ==
    /\ pc' = IF e.kind = "none" THEN "loop" ELSE "handler"
    /\ sandboxes' = IF e.kind = "none" THEN sandboxes \ {idx} ELSE sandboxes

\* cli.py 803-807: the processes are stopped and the log streamer is killed.
\* When `devenv processes stop` fails or is interrupted, p.kill() is not
\* reached, and the supervisor is still there (alive) or already gone.
Teardown(o, alive) ==
    /\ pc = "finally"
    /\ has_processes /\ ~debug
    /\ o.res = "ok" => ~alive
    /\ last_fail' = NotedFail(last_fail, o)
    /\ exc' = AfterTeardown(exc, RunCommand("stop", o))
    /\ hist' = Ended(Noted(hist, idx, o), idx,
                     IF exc'.kind = "none" THEN "passed" ELSE "running")
    /\ phases' = Append(phases, "teardown")
    /\ supervisors' = IF alive THEN supervisors ELSE supervisors \ {idx}
    /\ streamers' = IF o.res = "ok" /\ p THEN streamers \ {idx} ELSE streamers
    /\ LeaveTry(exc')
    /\ UNCHANGED marker
    /\ UNCHANGED <<idx, has_processes, p, failed, exit_status>>
    /\ UNCHANGED selVars
    /\ UNCHANGED fsVars
    /\ UNCHANGED extVars

\* cli.py 803-804: nothing to stop, or debug mode
NoTeardown ==
    /\ pc = "finally"
    /\ ~(has_processes /\ ~debug)
    /\ LeaveTry(exc)
    /\ hist' = Ended(hist, idx, IF exc.kind = "none" THEN "passed" ELSE "running")
    /\ UNCHANGED <<idx, has_processes, p, exc, failed, exit_status, supervisors,
                   streamers, last_fail, phases, marker>>
    /\ UNCHANGED selVars
    /\ UNCHANGED fsVars
    /\ UNCHANGED extVars

\* cli.py 808-809: a keyboard interrupt is raised again and leaves test()
HandlerReraise ==
    /\ pc = "handler"
    /\ HandlerChoice(exc, keep_going, debug) = "reraise"
    /\ pc' = UncaughtPc(exc)
    /\ exit_status' = UncaughtStatus(exc)
    /\ sandboxes' = sandboxes \ {idx}
    /\ hist' = Ended(hist, idx, EndedBy(exc))
    /\ UNCHANGED <<idx, has_processes, p, exc, failed, supervisors, streamers,
                   last_fail, phases, marker>>
    /\ UNCHANGED selVars
    /\ UNCHANGED fsVars
    /\ UNCHANGED extVars

\* cli.py 810-814: --keep-going records the failure and continues
HandlerRecord ==
    /\ pc = "handler"
    /\ HandlerChoice(exc, keep_going, debug) = "record"
    /\ failed' = Append(failed, selected_tests[idx])
    /\ exc' = NoExc
    /\ pc' = "loop"
    /\ sandboxes' = sandboxes \ {idx}
    /\ hist' = Ended(hist, idx, EndedBy(exc))
    /\ UNCHANGED <<idx, has_processes, p, exit_status, supervisors, streamers,
                   last_fail, phases, marker>>
    /\ UNCHANGED selVars
    /\ UNCHANGED fsVars
    /\ UNCHANGED extVars

\* cli.py 815-824: --debug replaces the process by a shell in the sandbox
HandlerShell ==
    /\ pc = "handler"
    /\ HandlerChoice(exc, keep_going, debug) = "shell"
    /\ pc' = "shell"
    /\ hist' = Ended(hist, idx, EndedBy(exc))
    /\ UNCHANGED <<idx, has_processes, p, exc, failed, exit_status, sandboxes,
                   supervisors, streamers, last_fail, phases, marker>>
    /\ UNCHANGED selVars
    /\ UNCHANGED fsVars
    /\ UNCHANGED extVars

\* cli.py 825-827: the error is raised again and ends the command
HandlerRaise ==
    /\ pc = "handler"
    /\ HandlerChoice(exc, keep_going, debug) = "raise"
    /\ pc' = UncaughtPc(exc)
    /\ exit_status' = UncaughtStatus(exc)
    /\ sandboxes' = sandboxes \ {idx}
    /\ hist' = Ended(hist, idx, EndedBy(exc))
    /\ UNCHANGED <<idx, has_processes, p, exc, failed, supervisors, streamers,
                   last_fail, phases, marker>>
    /\ UNCHANGED selVars
    /\ UNCHANGED fsVars
    /\ UNCHANGED extVars

\* cli.py 828-830: after the loop
LoopEnd ==
    /\ pc = "loop"
    /\ idx = Len(selected_tests)
    /\ exit_status' = FinalStatus(keep_going, failed)
    /\ pc' = "exited"
    /\ UNCHANGED <<idx, has_processes, p, exc, failed, sandboxes, supervisors,
                   streamers, hist, last_fail, phases, marker>>
    /\ UNCHANGED selVars
    /\ UNCHANGED fsVars
    /\ UNCHANGED extVars

NextRun ==
    \/ Resolve
    \/ StartTest
    \/ \E o \in Outcomes : Materialize(o)
    \/ \E o \in Outcomes : Ci(o)
    \/ \E mk \in Markers, o \in Outcomes : DetectNone(mk, o)
    \/ \E mk \in Markers, o \in Outcomes : DetectAndUp(mk, o)
    \/ \E exists \in BOOLEAN, o \in Outcomes : Script(exists, o)
    \/ \E o \in Outcomes, alive \in BOOLEAN : Teardown(o, alive)
    \/ NoTeardown
    \/ HandlerReraise
    \/ HandlerRecord
    \/ HandlerShell
    \/ HandlerRaise
    \/ LoopEnd

SpecRun == InitRun /\ [][NextRun]_vars

-----------------------------------------------------------------------------
(* The GC directory: add_gc, symlink_force, cleanup_symlinks (cli.py 195-201,
   269-281, 326-332) *)

\* Store paths a GC root can point at; each is missing, a regular file or a
\* directory.
StoreObjs == {"st/a", "st/b"}
StoreKinds == {"missing", "file", "dir"}

\* The entries that can exist: in the GC directory "gc" the symlink of an
\* earlier invocation (stamp 0) and those of this invocation (stamp 1) with
\* their lock files, a subdirectory with one entry, and one entry inside the
\* store directory st/b.
Slots == {"gc/0-ci", "gc/1-ci", "gc/1-ci.lock", "gc/1-shell", "gc/1-shell.lock",
          "gc/sub", "gc/sub/deep", "st/b/in"}

Parent(sl) ==
    CASE sl = "gc/sub/deep" -> "gc/sub"
      [] sl = "st/b/in"     -> "st/b"
      [] OTHER              -> "gc"

GcRoots == "gc"

NoEntry  == [kind |-> "none", target |-> "-"]
FileEntry == [kind |-> "file", target |-> "-"]
DirEntry == [kind |-> "dir", target |-> "-"]
LinkTo(t) == [kind |-> "link", target |-> t]

RegNames == {"ci", "shell"}

\* cli.py 178 and 201: f'{ctx.obj["gc_project"]}-{name}', with the stamp of this
\* invocation
Dst(name) == IF name = "ci" THEN "gc/1-ci" ELSE "gc/1-shell"

\* cli.py 330: f"{dst}.lock"
LockFile(dst) == IF dst = "gc/1-ci" THEN "gc/1-ci.lock" ELSE "gc/1-shell.lock"

\* os.path.islink
IsLink(f, sl) == f[sl].kind = "link"

\* os.path.isfile, which follows symlinks
IsFile(f, st, sl) ==
    \/ f[sl].kind = "file"
    \/ f[sl].kind = "link" /\ st[f[sl].target] = "file"

\* DirEntry.is_dir(), which follows symlinks: how os.walk sorts an entry into dirs
IsDirEntry(f, st, sl) ==
    \/ f[sl].kind = "dir"
    \/ f[sl].kind = "link" /\ st[f[sl].target] = "dir"

\* the entries of directory d
Children(f, d) == {sl \in Slots : Parent(sl) = d /\ f[sl].kind # "none"}

\* os.walk(folder), cli.py 272: the directories visited; a symlink to a directory
\* is listed in dirs and not walked into (followlinks is False)
RECURSIVE WalkDirs(_, _, _)
WalkDirs(f, st, d) ==
    {d} \cup UNION {WalkDirs(f, st, sl) :
                      sl \in {c \in Children(f, d) : IsDirEntry(f, st, c) /\ ~IsLink(f, c)}}

\* cli.py 272-274: every name of every `files` list of the walk
WalkFiles(f, st, folder) ==
    UNION {{c \in Children(f, d) : ~IsDirEntry(f, st, c)} : d \in WalkDirs(f, st, folder)}

\* cli.py 275-278: the symlinks that are unlinked
Dangling(f, st, folder) ==
    {sl \in WalkFiles(f, st, folder) : IsLink(f, sl) /\ ~IsFile(f, st, sl)}

\* cli.py 275-280: the symlinks that are kept
Active(f, st, folder) ==
    {sl \in WalkFiles(f, st, folder) : IsLink(f, sl) /\ IsFile(f, st, sl)}

\* cli.py 277: os.unlink of every dangling symlink
Unlinked(f, gone) == [sl \in Slots |-> IF sl \in gone THEN NoEntry ELSE f[sl]]

\* A slip in symlink_force: the old entry is not unlinked, and symlink_to fails
\* with FileExistsError on an existing entry.
SymlinkForceNoUnlink(f, src, dst) ==
    IF f[dst].kind # "none"
        THEN [f EXCEPT ![LockFile(dst)] = FileEntry]
        ELSE [f EXCEPT ![LockFile(dst)] = FileEntry, ![dst] = LinkTo(src)]

\* cli.py 326-332: under the file lock (its lock file is created and stays),
\* unlink(missing_ok=True), then symlink_to
SymlinkForce(f, src, dst) ==
    [f EXCEPT ![LockFile(dst)] = FileEntry, ![dst] = LinkTo(src)]

\* The directory as an invocation finds it: nothing of its own stamp exists yet.
FsStates ==
    {f \in [Slots -> {NoEntry, FileEntry, DirEntry} \cup {LinkTo(t) : t \in StoreObjs}] :
        /\ f["gc/1-ci"] = NoEntry /\ f["gc/1-ci.lock"] = NoEntry
        /\ f["gc/1-shell"] = NoEntry /\ f["gc/1-shell.lock"] = NoEntry
        /\ f["gc/0-ci"].kind \in {"none", "link"}
        /\ f["gc/sub"].kind \in {"none", "dir"}
        /\ f["gc/sub/deep"].kind \in {"none", "link"}
        /\ f["gc/sub"].kind = "none" => f["gc/sub/deep"] = NoEntry
        /\ f["st/b/in"] \in {NoEntry, LinkTo("st/a")}}

InitFs ==
    /\ store \in [StoreObjs -> StoreKinds]
    /\ fs \in FsStates
    /\ store["st/b"] # "dir" => fs["st/b/in"] = NoEntry
    /\ to_gc = {}
    /\ removed_symlinks = {}
    /\ cli = "up"
    /\ fsop = [op |-> "init"]
    /\ tests = <<>> /\ given = <<>> /\ names = <<>> /\ exclude = {}
    /\ tags = <<>> /\ selected_tests = <<>>
    /\ keep_going = FALSE /\ debug = FALSE
    /\ pc = "fs"
    /\ RunIdle
    /\ ExtIdle

\* cli.py 195-201: add_gc: the engine registers the root, then the user-scoped
\* symlink is forced; when the engine fails run_command exits the invocation.
AddGc(name, store_path, o) ==
    /\ pc = "fs"
    /\ cli = "up"
    /\ o.res # "kbd"
    /\ IF o.res = "ok"
         THEN /\ fs' = SymlinkForce(fs, store_path, Dst(name))
              /\ cli' = cli
         ELSE /\ fs' = fs
              /\ cli' = "exited"
    /\ fsop' = [op |-> "register", name |-> name, path |-> store_path,
                ok |-> (o.res = "ok"), fs0 |-> fs]
    /\ UNCHANGED <<store, to_gc, removed_symlinks>>
    /\ UNCHANGED selVars
    /\ UNCHANGED runVars
    /\ UNCHANGED extVars

\* cli.py 269-281: cleanup_symlinks(folder) on the GC directory
CleanupSymlinks ==
    /\ pc = "fs"
    /\ to_gc' = Active(fs, store, GcRoots)
    /\ removed_symlinks' = Dangling(fs, store, GcRoots)
    /\ fs' = Unlinked(fs, removed_symlinks')
    /\ fsop' = [op |-> "sweep", fs0 |-> fs]
    /\ UNCHANGED <<store, cli>>
    /\ UNCHANGED selVars
    /\ UNCHANGED runVars
    /\ UNCHANGED extVars

\* The engine builds or deletes a store path (cli.py 257, `nix store delete`, and
\* every build); the content of a store directory goes with it.
StoreChange(obj, kind) ==
    /\ pc = "fs"
    /\ store[obj] # kind
    /\ store' = [store EXCEPT ![obj] = kind]
    /\ fs' = IF obj = "st/b" THEN [fs EXCEPT !["st/b/in"] = NoEntry] ELSE fs
    /\ fsop' = [op |-> "store"]
    /\ UNCHANGED <<to_gc, removed_symlinks, cli>>
    /\ UNCHANGED selVars
    /\ UNCHANGED runVars
    /\ UNCHANGED extVars

NextFs ==
    \/ \E name \in RegNames, store_path \in StoreObjs, o \in Outcomes :
          AddGc(name, store_path, o)
    \/ CleanupSymlinks
    \/ \E obj \in StoreObjs, kind \in StoreKinds : StoreChange(obj, kind)

SpecFs == InitFs /\ [][NextFs]_vars

-----------------------------------------------------------------------------
(* Registrations racing with each other and with a sweep, one system call at a
   time (cli.py 269-281, 326-332) *)

NumReg == 2      \* registrars running beside the sweep

Registrars == 1..NumReg

Dsts == {Dst(name) : name \in RegNames}

\* cli.py 270-271: the sweep before it starts
SweepIdle == [pc |-> "idle", files |-> {}, cur |-> "-", hit |-> FALSE]

\* Only the top directory has entries here: the symlinks of the invocations.
ConcFs == [sl \in Slots |-> NoEntry]

\* Every registrar is about to enter symlink_force (cli.py 201): the engine has
\* realised its store path; registrars of one name share the stamp of their
\* invocation's start (cli.py 178), and with it the symlink and its lock file.
InitConc ==
    /\ reg \in [Registrars -> [pc : {"acquire"}, name : RegNames, path : StoreObjs,
                               touched : {FALSE}]]
    /\ lock = [d \in Dsts |-> 0]
    /\ sweep = SweepIdle
    /\ fs = ConcFs
    /\ store \in [StoreObjs -> {"file", "dir"}]
    /\ to_gc = {}
    /\ removed_symlinks = {}
    /\ cli = "up"
    /\ fsop = [op |-> "init"]
    /\ tests = <<>> /\ given = <<>> /\ names = <<>> /\ exclude = {}
    /\ tags = <<>> /\ selected_tests = <<>>
    /\ keep_going = FALSE /\ debug = FALSE
    /\ pc = "conc"
    /\ RunIdle
    /\ ProcIdle
    /\ CmdIdle
    /\ gcrun = <<>>

ConcFrame ==
    /\ UNCHANGED <<cli, fsop>>
    /\ UNCHANGED selVars
    /\ UNCHANGED runVars
    /\ UNCHANGED procVars
    /\ UNCHANGED cmdVars
    /\ UNCHANGED gcrun

\* cli.py 330: FileLock(...).__enter__ gets the lock when nobody holds it; the
\* lock file is created
RegAcquire(r) ==
    /\ pc = "conc"
    /\ reg[r].pc = "acquire"
    /\ lock[Dst(reg[r].name)] = 0
    /\ lock' = [lock EXCEPT ![Dst(reg[r].name)] = r]
    /\ fs' = [fs EXCEPT ![LockFile(Dst(reg[r].name))] = FileEntry]
    /\ reg' = [reg EXCEPT ![r].pc = "unlink"]
    /\ UNCHANGED <<store, to_gc, removed_symlinks, sweep>>
    /\ ConcFrame

\* cli.py 330: timeout=10: the lock stayed with another registrar for the whole
\* interval, and acquire raises Timeout
RegTimeout(r) ==
    /\ pc = "conc"
    /\ reg[r].pc = "acquire"
    /\ lock[Dst(reg[r].name)] # 0
    /\ reg' = [reg EXCEPT ![r].pc = "timeout"]
    /\ UNCHANGED <<fs, store, to_gc, removed_symlinks, lock, sweep>>
    /\ ConcFrame

\* cli.py 331: dst.unlink(missing_ok=True)
RegUnlink(r) ==
    /\ pc = "conc"
    /\ reg[r].pc = "unlink"
    /\ fs' = Unlinked(fs, {Dst(reg[r].name)})
    /\ reg' = [reg EXCEPT ![r].pc = "symlink", ![r].touched = TRUE]
    /\ UNCHANGED <<store, to_gc, removed_symlinks, lock, sweep>>
    /\ ConcFrame

\* cli.py 332 and the end of the with block: dst.symlink_to(src), which raises
\* FileExistsError when dst exists; the lock is released either way
RegSymlink(r) ==
    /\ pc = "conc"
    /\ reg[r].pc = "symlink"
    /\ IF fs[Dst(reg[r].name)].kind = "none"
         THEN /\ fs' = [fs EXCEPT ![Dst(reg[r].name)] = LinkTo(reg[r].path)]
              /\ reg' = [reg EXCEPT ![r].pc = "done"]
         ELSE /\ fs' = fs
              /\ reg' = [reg EXCEPT ![r].pc = "failed"]
    /\ lock' = [lock EXCEPT ![Dst(reg[r].name)] = 0]
    /\ UNCHANGED <<store, to_gc, removed_symlinks, sweep>>
    /\ ConcFrame

\* cli.py 270-272: the result lists are empty and os.walk lists the directory
SweepStart ==
    /\ pc = "conc"
    /\ sweep.pc = "idle"
    /\ to_gc' = {}
    /\ removed_symlinks' = {}
    /\ sweep' = [sweep EXCEPT !.pc = "loop", !.files = WalkFiles(fs, store, GcRoots)]
    /\ UNCHANGED <<fs, store, reg, lock>>
    /\ ConcFrame

\* cli.py 273-275: the next listed name; os.path.islink looks at the entry as it
\* is now
SweepIsLink(sl) ==
    /\ pc = "conc"
    /\ sweep.pc = "loop"
    /\ sl \in sweep.files
    /\ sweep' = [sweep EXCEPT !.files = @ \ {sl},
                              !.cur = IF IsLink(fs, sl) THEN sl ELSE "-",
                              !.pc = IF IsLink(fs, sl) THEN "isfile" ELSE "loop"]
    /\ UNCHANGED <<fs, store, to_gc, removed_symlinks, reg, lock>>
    /\ ConcFrame

\* cli.py 276 and 279-280: os.path.isfile, again on the entry as it is now
SweepIsFile ==
    /\ pc = "conc"
    /\ sweep.pc = "isfile"
    /\ IF IsFile(fs, store, sweep.cur)
         THEN /\ to_gc' = to_gc \cup {sweep.cur}
              /\ sweep' = [sweep EXCEPT !.pc = "loop", !.cur = "-"]
         ELSE /\ to_gc' = to_gc
              /\ sweep' = [sweep EXCEPT !.pc = "unlink"]
    /\ UNCHANGED <<fs, store, removed_symlinks, reg, lock>>
    /\ ConcFrame

\* cli.py 277-278: os.unlink removes whatever the name refers to now, and raises
\* FileNotFoundError when it refers to nothing
SweepUnlink ==
    /\ pc = "conc"
    /\ sweep.pc = "unlink"
    /\ IF fs[sweep.cur].kind = "none"
         THEN /\ sweep' = [sweep EXCEPT !.pc = "failed"]
              /\ UNCHANGED <<fs, removed_symlinks>>
         ELSE /\ fs' = Unlinked(fs, {sweep.cur})
              /\ removed_symlinks' = removed_symlinks \cup {sweep.cur}
              /\ sweep' = [sweep EXCEPT
                             !.pc = "loop", !.cur = "-",
                             !.hit = @ \/ (IsLink(fs, sweep.cur)
                                           /\ store[fs[sweep.cur].target] # "missing")]
    /\ UNCHANGED <<store, to_gc, reg, lock>>
    /\ ConcFrame

\* cli.py 281: the walk is over
SweepReturn ==
    /\ pc = "conc"
    /\ sweep.pc = "loop"
    /\ sweep.files = {}
    /\ sweep' = [sweep EXCEPT !.pc = "done"]
    /\ UNCHANGED <<fs, store, to_gc, removed_symlinks, reg, lock>>
    /\ ConcFrame

\* The engine deletes a store path (cli.py 257, `nix store delete`, of this or of
\* another invocation).
StoreDelete(obj) ==
    /\ pc = "conc"
    /\ store[obj] # "missing"
    /\ store' = [store EXCEPT ![obj] = "missing"]
    /\ UNCHANGED <<fs, to_gc, removed_symlinks, reg, lock, sweep>>
    /\ ConcFrame

NextConc ==
    \/ \E r \in Registrars : RegAcquire(r)
    \/ \E r \in Registrars : RegTimeout(r)
    \/ \E r \in Registrars : RegUnlink(r)
    \/ \E r \in Registrars : RegSymlink(r)
    \/ SweepStart
    \/ \E sl \in Slots : SweepIsLink(sl)
    \/ SweepIsFile
    \/ SweepUnlink
    \/ SweepReturn
    \/ \E obj \in StoreObjs : StoreDelete(obj)

SpecConc == InitConc /\ [][NextConc]_vars

-----------------------------------------------------------------------------
(* The process runner: up --detach and processes stop (cli.py 344-411) *)

MaxPid == 11     \* process ids 9..MaxPid: one and two decimal digits

Pids == 9..MaxPid

\* A slip in writing the marker: the digits come out in reverse.
RECURSIVE StrReversed(_)
StrReversed(n) == IF n < 10 THEN <<n>> ELSE <<n % 10>> \o StrReversed(n \div 10)

\* cli.py 379: str(process.pid), the decimal digits of the pid
RECURSIVE Str(_)
Str(n) == IF n < 10 THEN <<n>> ELSE Str(n \div 10) \o <<n % 10>>

\* cli.py 401: int(file.read())
RECURSIVE IntOf(_)
IntOf(s) ==
    IF Len(s) = 1 THEN s[1]
    ELSE 10 * IntOf(SubSeq(s, 1, Len(s) - 1)) + s[Len(s)]

NoFile == [exists |-> FALSE, text |-> <<>>]
FileWith(t) == [exists |-> TRUE, text |-> t]

\* What os.kill(pid, SIGTERM) does, by what has the pid: no process
\* (ProcessLookupError), a process of another user (PermissionError), or a
\* process of this user, which gets the signal.
Kill(kind) ==
    CASE kind = "free"    -> "lookup"
      [] kind = "foreign" -> "permission"
      [] OTHER            -> "delivered"

\* A slip in stop: the marker goes whatever os.kill did.
StopMarkerAlways(file, res) == NoFile

\* cli.py 405-411: os.remove is reached only when os.kill returned
StopMarker(file, res) == IF res = "delivered" THEN NoFile ELSE file

\* cli.py 396-409: the exit of stop: NotRunning and NotFound exit with 1, and
\* an uncaught PermissionError ends the command with status 1 as well
StopStatus(res) == IF res = "delivered" THEN 0 ELSE 1

NoOp == [op |-> "init", ok |-> TRUE, why |-> "-", pid |-> 0, status |-> 0]

InitProc ==
    /\ pidfile = NoFile
    /\ procs \in [Pids -> {"free", "own", "foreign"}]
    /\ last_started = 0
    /\ procop = [now |-> NoOp, prev |-> NoOp, file0 |-> NoFile, procs0 |-> procs]
    /\ tests = <<>> /\ given = <<>> /\ names = <<>> /\ exclude = {}
    /\ tags = <<>> /\ selected_tests = <<>>
    /\ keep_going = FALSE /\ debug = FALSE
    /\ pc = "proc"
    /\ RunIdle
    /\ FsIdle
    /\ ConcIdle
    /\ CmdIdle
    /\ gcrun = <<>>

ProcFrame ==
    /\ UNCHANGED selVars
    /\ UNCHANGED runVars
    /\ UNCHANGED fsVars
    /\ UNCHANGED concVars
    /\ UNCHANGED cmdVars
    /\ UNCHANGED gcrun

Noting(now) == [now |-> now, prev |-> procop.now, file0 |-> pidfile, procs0 |-> procs]

\* cli.py 344-356: up --detach whose build fails (run_command exits with the
\* engine's status) or whose procfile script is empty (exit 1): nothing is
\* spawned and nothing is written
UpFails(o, empty) ==
    /\ pc = "proc"
    /\ o.res # "kbd"
    /\ o.res = "fail" \/ empty
    /\ procop' = Noting([op |-> "start", ok |-> FALSE,
                         why |-> IF o.res = "fail" THEN "build" ELSE "empty",
                         pid |-> 0,
                         status |-> IF o.res = "fail" THEN o.code ELSE 1])
    /\ UNCHANGED <<pidfile, procs, last_started>>
    /\ ProcFrame

\* cli.py 357-382: up --detach: the wrapper is spawned under a pid that was
\* free, and that pid is written to the marker file
UpDetached(pid) ==
    /\ pc = "proc"
    /\ procs[pid] = "free"
    /\ procs' = [procs EXCEPT ![pid] = "sup"]
    /\ pidfile' = FileWith(Str(pid))
    /\ last_started' = pid
    /\ procop' = Noting([op |-> "start", ok |-> TRUE, why |-> "-", pid |-> pid,
                         status |-> 0])
    /\ ProcFrame

\* cli.py 396-398: stop without a marker file
StopNotRunning ==
    /\ pc = "proc"
    /\ ~pidfile.exists
    /\ procop' = Noting([op |-> "stop", ok |-> FALSE, why |-> "NotRunning", pid |-> 0,
                         status |-> 1])
    /\ UNCHANGED <<pidfile, procs, last_started>>
    /\ ProcFrame

\* cli.py 400-411: stop with a marker file: the recorded pid is signalled
Stop ==
    /\ pc = "proc"
    /\ pidfile.exists
    /\ LET pid == IntOf(pidfile.text)
           res == Kill(procs[pid])
       IN  /\ pidfile' = StopMarker(pidfile, res)
           /\ procop' = Noting([op |-> "stop", ok |-> (res = "delivered"),
                                why |-> CASE res = "delivered"  -> "-"
                                          [] res = "lookup"     -> "NotFound"
                                          [] res = "permission" -> "PermissionError",
                                pid |-> pid,
                                status |-> StopStatus(res)])
    /\ UNCHANGED <<procs, last_started>>
    /\ ProcFrame

\* A process ends, by itself or on the signal it got.
ProcExit(pid) ==
    /\ pc = "proc"
    /\ procs[pid] # "free"
    /\ procs' = [procs EXCEPT ![pid] = "free"]
    /\ procop' = Noting([op |-> "exit", ok |-> TRUE, why |-> "-", pid |-> pid,
                         status |-> 0])
    /\ UNCHANGED <<pidfile, last_started>>
    /\ ProcFrame

\* The system gives a free pid to an unrelated process.
ProcSpawn(pid, kind) ==
    /\ pc = "proc"
    /\ procs[pid] = "free"
    /\ procs' = [procs EXCEPT ![pid] = kind]
    /\ procop' = Noting([op |-> "spawn", ok |-> TRUE, why |-> "-", pid |-> pid,
                         status |-> 0])
    /\ UNCHANGED <<pidfile, last_started>>
    /\ ProcFrame

NextProc ==
    \/ \E o \in Outcomes, empty \in BOOLEAN : UpFails(o, empty)
    \/ \E pid \in Pids : UpDetached(pid)
    \/ StopNotRunning
    \/ Stop
    \/ \E pid \in Pids : ProcExit(pid)
    \/ \E pid \in Pids, kind \in {"own", "foreign"} : ProcSpawn(pid, kind)

SpecProc == InitProc /\ [][NextProc]_vars

-----------------------------------------------------------------------------
(* run_command and its callers (cli.py 76-144, 780-827, 845-853) *)

MaxOut == 3      \* characters of captured standard output

Whitespace == {" ", "\n"}

Outputs == SeqsUpTo(Whitespace \cup {"a"}, MaxOut)

\* Command lines, as characters: `nix ...` (run_nix), `nix-store ...` (add_gc),
\* and two that do not start with "nix".
Commands == { <<"n", "i", "x", " ", "b">>, <<"n", "i", "x", "-", "s">>,
              <<"n", "i">>, <<"c", "a", "t">> }

\* cli.py 85: command.startswith("nix")
StartsWith(s, pre) == Len(s) >= Len(pre) /\ SubSeq(s, 1, Len(pre)) = pre

\* cli.py 133: str.strip(), the leading whitespace
RECURSIVE LStrip(_)
LStrip(s) ==
    IF s # <<>> /\ s[1] \in Whitespace THEN LStrip(Tail(s)) ELSE s

\* cli.py 133: str.strip(), the trailing whitespace
RECURSIVE RStrip(_)
RStrip(s) ==
    IF s # <<>> /\ s[Len(s)] \in Whitespace THEN RStrip(SubSeq(s, 1, Len(s) - 1)) ELSE s

\* cli.py 133: .stdout.strip()
Strip(s) == RStrip(LStrip(s))

\* A slip: dont_exit is not looked at.
RunCommandAlwaysExits(command, devenv_nix, dont_exit, code, stdout) ==
    IF StartsWith(command, <<"n", "i", "x">>) /\ ~devenv_nix
        THEN [pc |-> "exit", executed |-> FALSE, code |-> 1, value |-> <<>>]
    ELSE IF code = 0
        THEN [pc |-> "returned", executed |-> TRUE, code |-> 0, value |-> Strip(stdout)]
    ELSE [pc |-> "exit", executed |-> TRUE, code |-> code, value |-> <<>>]

\* cli.py 84-144: how run_command ends: it returns the trimmed output, raises
\* SystemExit(code) through exit(), or raises the CalledProcessError
RunCommandEnds(command, devenv_nix, dont_exit, code, stdout) ==
    IF StartsWith(command, <<"n", "i", "x">>) /\ ~devenv_nix
        THEN [pc |-> "exit", executed |-> FALSE, code |-> 1, value |-> <<>>]
    ELSE IF code = 0
        THEN [pc |-> "returned", executed |-> TRUE, code |-> 0, value |-> Strip(stdout)]
    ELSE IF dont_exit
        THEN [pc |-> "raised", executed |-> TRUE, code |-> code, value |-> <<>>]
    ELSE [pc |-> "exit", executed |-> TRUE, code |-> code, value |-> <<>>]

\* The callers: a command at its top level (ci, gc, up, add_gc ...), the test
\* lifecycle inside its try block (cli.py 780-807, running `devenv ci` and the
\* like), and get_cachix_caches, the one caller passing dont_exit (845-853).
Callers == {"command", "lifecycle", "cachix"}

InitCmd ==
    /\ rc_in \in [command : Commands, devenv_nix : BOOLEAN, caller : Callers]
    /\ rc_in.caller = "cachix" => rc_in.command = <<"n", "i", "x", " ", "b">>
    /\ rc_in.caller = "lifecycle" => ~StartsWith(rc_in.command, <<"n", "i", "x">>)
    /\ rc_out = [pc |-> "call", executed |-> FALSE, code |-> 0, value |-> <<>>,
                 stdout |-> <<>>, status |-> -1]
    /\ keep_going \in BOOLEAN
    /\ debug \in BOOLEAN
    /\ rc_in.caller # "lifecycle" => (~keep_going /\ ~debug)
    /\ tests = <<>> /\ given = <<>> /\ names = <<>> /\ exclude = {}
    /\ tags = <<>> /\ selected_tests = <<>>
    /\ pc = "cmd"
    /\ RunIdle
    /\ FsIdle
    /\ ConcIdle
    /\ ProcIdle
    /\ gcrun = <<>>

CmdFrame ==
    /\ UNCHANGED rc_in
    /\ UNCHANGED selVars
    /\ UNCHANGED runVars
    /\ UNCHANGED fsVars
    /\ UNCHANGED concVars
    /\ UNCHANGED procVars
    /\ UNCHANGED gcrun

DontExit == rc_in.caller = "cachix"

\* cli.py 76-144: one call of run_command; the command, when it is run, exits
\* with `code` having written `stdout`
RunCommandCall(code, stdout) ==
    /\ pc = "cmd"
    /\ rc_out.pc = "call"
    /\ LET e == RunCommandEnds(rc_in.command, rc_in.devenv_nix, DontExit, code, stdout)
       IN  /\ ~e.executed => (code = 0 /\ stdout = <<>>)
           /\ rc_out' = [pc |-> e.pc, executed |-> e.executed, code |-> e.code,
                         value |-> e.value, stdout |-> stdout, status |-> -1]
    /\ CmdFrame

\* SystemExit leaves a command that does not catch it: the process ends with
\* the status it carries. get_cachix_caches catches CalledProcessError only.
ExitUncaught ==
    /\ pc = "cmd"
    /\ rc_out.pc = "exit"
    /\ rc_in.caller # "lifecycle"
    /\ rc_out' = [rc_out EXCEPT !.pc = "terminated", !.status = rc_out.code]
    /\ CmdFrame

\* cli.py 810-827: inside the test lifecycle SystemExit is caught by `except
\* BaseException`
ExitInLifecycle ==
    /\ pc = "cmd"
    /\ rc_out.pc = "exit"
    /\ rc_in.caller = "lifecycle"
    /\ LET e == [kind |-> "exit", code |-> rc_out.code, at |-> "cmd"]
           h == HandlerChoice(e, keep_going, debug)
       IN  rc_out' = CASE h = "record" -> [rc_out EXCEPT !.pc = "continues"]
                       [] h = "shell"  -> [rc_out EXCEPT !.pc = "shell"]
                       [] OTHER        -> [rc_out EXCEPT !.pc = "terminated",
                                                         !.status = UncaughtStatus(e)]
    /\ CmdFrame

\* cli.py 852-853: get_cachix_caches catches the CalledProcessError and goes on
\* with no caches
RaisedCaught ==
    /\ pc = "cmd"
    /\ rc_out.pc = "raised"
    /\ rc_out' = [rc_out EXCEPT !.pc = "continues"]
    /\ CmdFrame

NextCmd ==
    \/ \E code \in 0..MaxCode, stdout \in Outputs : RunCommandCall(code, stdout)
    \/ ExitUncaught
    \/ ExitInLifecycle
    \/ RaisedCaught

SpecCmd == InitCmd /\ [][NextCmd]_vars

-----------------------------------------------------------------------------
(* The gc command (cli.py 241-266) *)

NoGc == [op |-> "none"]

\* The store after the engine deleted the paths in `gone`.
Deleted(st, gone) == [obj \in StoreObjs |-> IF obj \in gone THEN "missing" ELSE st[obj]]

\* cli.py 257: `--recursive`: a store path goes with its closure; here st/a
\* refers to st/b.
Closure(objs) == objs \cup (IF "st/a" \in objs THEN {"st/b"} ELSE {})

\* cli.py 257: the store paths behind the symlinks handed to the engine
Targets(f, links) == {f[sl].target : sl \in links}

\* cli.py 264: len(to_gc) - len(after_gc)
Reclaimed(first, second) == Cardinality(first) - Cardinality(second)

\* The GC directory as the gc command finds it: symlinks of an earlier
\* invocation and of this one, no subdirectory.
InitGc ==
    /\ store \in [StoreObjs -> StoreKinds]
    /\ fs \in {f \in FsStates : f["gc/sub"] = NoEntry /\ f["st/b/in"] = NoEntry}
    /\ to_gc = {}
    /\ removed_symlinks = {}
    /\ cli = "up"
    /\ fsop = [op |-> "init"]
    /\ gcrun = NoGc
    /\ tests = <<>> /\ given = <<>> /\ names = <<>> /\ exclude = {}
    /\ tags = <<>> /\ selected_tests = <<>>
    /\ keep_going = FALSE /\ debug = FALSE
    /\ pc = "fs"
    /\ RunIdle
    /\ ConcIdle
    /\ ProcIdle
    /\ CmdIdle

\* cli.py 241-266: gc: the first sweep, `nix store delete --recursive` of the
\* active symlinks (the engine deletes the store paths in `gone`: of those it
\* was given and of what their closures hold, the ones nothing else refers
\* to), and,
\* when the engine succeeded, the second sweep and the report; when it failed,
\* run_command exits with the engine's status.
Gc(gone, o) ==
    /\ pc = "fs"
    /\ cli = "up"
    /\ o.res # "kbd"
    /\ \A obj \in gone : store[obj] # "missing"
    /\ gone \subseteq Closure(Targets(fs, Active(fs, store, GcRoots)))
    /\ ("st/b" \in gone /\ store["st/a"] # "missing") => "st/a" \in gone
    /\ LET first    == Active(fs, store, GcRoots)
           removed1 == Dangling(fs, store, GcRoots)
           fs1      == Unlinked(fs, removed1)
           store1   == Deleted(store, gone)
           after_gc == Active(fs1, store1, GcRoots)
           removed2 == Dangling(fs1, store1, GcRoots)
       IN  /\ store' = store1
           /\ to_gc' = first
           /\ IF o.res = "ok"
                THEN /\ fs' = Unlinked(fs1, removed2)
                     /\ removed_symlinks' = removed2
                     /\ cli' = cli
                     /\ gcrun' = [op |-> "gc", ok |-> TRUE, fs0 |-> fs, store0 |-> store,
                                  steps |-> <<"sweep", "delete", "sweep">>,
                                  asked |-> first, after_gc |-> after_gc,
                                  removed |-> removed2,
                                  reported |-> Reclaimed(first, after_gc),
                                  status |-> 0]
                ELSE /\ fs' = fs1
                     /\ removed_symlinks' = removed1
                     /\ cli' = "exited"
                     /\ gcrun' = [op |-> "gc", ok |-> FALSE, fs0 |-> fs, store0 |-> store,
                                  steps |-> <<"sweep", "delete">>,
                                  asked |-> first, after_gc |-> {},
                                  removed |-> {},
                                  reported |-> -1,
                                  status |-> o.code]
    /\ fsop' = [op |-> "gc"]
    /\ UNCHANGED selVars
    /\ UNCHANGED runVars
    /\ UNCHANGED <<concVars, procVars, cmdVars>>

NextGc ==
    \/ \E name \in RegNames, store_path \in StoreObjs, o \in Outcomes :
          AddGc(name, store_path, o)
    \/ \E gone \in SUBSET StoreObjs, o \in Outcomes : Gc(gone, o)

SpecGc == InitGc /\ [][NextGc]_vars

-----------------------------------------------------------------------------
(* Properties of the selection (SpecSel) *)

\* The tests declaring `tag`, in the iteration order of the mapping.
Members(ts, tag) ==
    LET decl == SelectSeq(ts, LAMBDA t : t.val.hasTags /\ tag \in Range(t.val.tags))
    IN  [i \in 1..Len(decl) |-> decl[i].name]

Without(s, excl) == SelectSeq(s, LAMBDA n : n \notin excl)

Count(s, x) == Cardinality({i \in DOMAIN s : s[i] = x})

HasTag(ts, name, tag) ==
    \E i \in DOMAIN ts : ts[i].name = name /\ tag \in Range(ts[i].val.tags)

Resolved == pc = "loop"

\* C1 (as claimed): with no names given the selection is exactly the tag group
\* "local" after exclusion filtering.
C1_DefaultIsLocalGroup ==
    (Resolved /\ given = <<>>) =>
        selected_tests = Without(Members(tests, "local"), exclude)

\* C1 (amended): with no names given the selection is the test literally named
\* "local", when the mapping has one, followed by the tag group "local" in
\* tag-index order after exclusion filtering; when no test is named "local",
\* no test without the tag is selected, and when moreover no test carries the
\* tag the selection is empty.
C1_DefaultResolvesLocal ==
    (Resolved /\ given = <<>>) =>
        /\ selected_tests =
              (IF InTests(tests, "local") THEN <<"local">> ELSE <<>>)
              \o Without(Members(tests, "local"), exclude)
        /\ ~InTests(tests, "local") =>
              /\ \A n \in Range(selected_tests) : HasTag(tests, n, "local")
              /\ (Members(tests, "local") = <<>> => selected_tests = <<>>)

C1_Witness ==
    /\ Resolved /\ given = <<>>
    /\ Len(tests) = 2
    /\ tests[1].name = "t1" /\ tests[1].val.tags = <<"x">>
    /\ tests[2].name = "t2" /\ tests[2].val.tags = <<"local", "x">>
    /\ selected_tests = <<"t2">>

\* C2: exclusion filters only tag expansion: a test occurs in the selection
\* once for every time it is requested by its literal name, excluded or not,
\* and once more for every requested tag it declares, unless it is excluded.
C2_ExcludeOnlyFiltersTags ==
    Resolved =>
        \A t \in TestIds :
            Count(selected_tests, t) =
                (IF InTests(tests, t) THEN Count(names, t) ELSE 0)
                + (IF t \in exclude THEN 0
                   ELSE Cardinality({i \in DOMAIN names : HasTag(tests, t, names[i])}))

C2_Witness ==
    /\ Resolved
    /\ given = <<"t1", "local">>
    /\ "t1" \in exclude
    /\ HasTag(tests, "t1", "local") /\ HasTag(tests, "t2", "local")
    /\ selected_tests = <<"t1", "t2">>

\* C3: every name of the resolved selection is a key of the test mapping,
\* whatever names were requested and whatever is excluded.
C3_SelectionWithinTests ==
    Resolved => \A n \in Range(selected_tests) : InTests(tests, n)

C3_Witness ==
    /\ Resolved
    /\ given = <<"zz", "t1">>
    /\ "zz" \in exclude
    /\ selected_tests = <<"t1">>

\* C4: the tag index maps each declared tag to the tests declaring it, in the
\* iteration order of the mapping, and has no other key; a requested tag that
\* is not also a test name yields its members in that order.
C4_TagIndexInMappingOrder ==
    Resolved =>
        /\ DOMAIN tags = {tg \in TagIds : Members(tests, tg) # <<>>}
        /\ \A tg \in DOMAIN tags : tags[tg] = Members(tests, tg)
        /\ \A tg \in TagIds :
              (given = <<tg>> /\ ~InTests(tests, tg) /\ exclude = {}) =>
                  selected_tests = Members(tests, tg)

C4_Witness ==
    /\ Resolved
    /\ given = <<"x">> /\ exclude = {}
    /\ Len(tests) = 2
    /\ tests[1].name = "t2" /\ tests[1].val.tags = <<"x">>
    /\ tests[2].name = "t1" /\ tests[2].val.tags = <<"local", "x">>
    /\ tags["x"] = <<"t2", "t1">> /\ tags["local"] = <<"t1">>
    /\ selected_tests = <<"t2", "t1">>

\* C5 (as claimed): a test without a `tags` key is treated as having no tags:
\* the tag index is built, the test is in no tag group, and it is selected
\* only by its literal name.
C5_MissingTagsIsEmpty ==
    (pc # "start" /\ TagsKeyError(tests)) =>
        /\ Resolved
        /\ \A i \in DOMAIN tests :
              ~tests[i].val.hasTags =>
                  /\ \A tg \in DOMAIN tags : tests[i].name \notin Range(tags[tg])
                  /\ Count(selected_tests, tests[i].name) = Count(names, tests[i].name)

-----------------------------------------------------------------------------
(* Properties of the test loop (SpecRun) *)

\* The names of the executions in which a command failed, in execution order.
FailedExecutions ==
    LET bad == SelectSeq(hist, LAMBDA h : h.cmdFailed)
    IN  [i \in 1..Len(bad) |-> bad[i].name]

HistNames == [i \in 1..Len(hist) |-> hist[i].name]

Terminal == pc \in {"exited", "raised", "aborted", "shell", "crashed"}

\* C6: with --keep-going a failing test never ends the run: the run leaves the
\* loop early only by a keyboard interrupt or by an error while the sandbox is
\* filled (outside the lifecycle's try block); after the loop every selected
\* test was executed, the exit status is 2 iff some test failed and 0
\* otherwise, and the failure list names exactly the failed tests in
\* execution order.
C6_KeepGoingRunsAll ==
    keep_going =>
        /\ pc # "shell"
        /\ pc = "raised" => exc.at = "materialize"
        /\ pc = "exited" =>
              /\ HistNames = selected_tests
              /\ exit_status = 2 <=> (\E i \in DOMAIN hist : hist[i].cmdFailed)
              /\ exit_status \in {0, 2}
              /\ failed = FailedExecutions

C6_Witness ==
    /\ keep_going
    /\ pc = "exited"
    /\ selected_tests = <<"t1", "t2">>
    /\ hist[1].cmdFailed /\ ~hist[2].cmdFailed
    /\ failed = <<"t1">>
    /\ exit_status = 2

\* C7: without --keep-going a failure ends the run at the failing test: no later
\* test is started; a failure inside the lifecycle ends, with --debug, in a
\* shell in the sandbox, which still exists, and otherwise in the process exiting
\* with the exit code of the command whose failure ended the lifecycle (the
\* last one that failed); the shell is entered only with --debug and without
\* --keep-going; a run that reaches the end of the loop without a failure exits
\* with status 0.
C7_FailureEndsRun ==
    /\ ~keep_going =>
          /\ \A i \in DOMAIN hist :
                hist[i].cmdFailed => (i = Len(hist) /\ pc \notin {"loop", "exited"})
          /\ (Terminal /\ exc.kind = "exit" /\ exc.at # "materialize") =>
                IF debug THEN pc = "shell" /\ idx \in sandboxes
                ELSE pc = "raised" /\ exit_status = last_fail
          /\ pc = "raised" => exit_status = last_fail /\ last_fail > 0
    /\ pc = "shell" => (debug /\ ~keep_going)
    /\ (pc = "exited" /\ \A i \in DOMAIN hist : ~hist[i].cmdFailed) => exit_status = 0

C7_Witness ==
    /\ ~keep_going /\ ~debug
    /\ selected_tests = <<"t1", "t2">>
    /\ pc = "raised"
    /\ Len(hist) = 1
    /\ exc.at = "script"
    /\ last_fail = 2
    /\ exit_status = 2

\* C8 (as claimed): a keyboard interrupt in a test's lifecycle ends the run at
\* that test, also under --keep-going: the interrupted test is not recorded
\* as failed with the loop going on, no later test is started, and the run
\* does not end at the end of the loop (where the keep-going status 2 is set).
C8_InterruptAborts ==
    \A i \in DOMAIN hist :
        hist[i].interrupted =>
            /\ i = Len(hist)
            /\ Len(failed) <= Cardinality({j \in 1..(i - 1) : hist[j].cmdFailed})
            /\ pc \notin {"loop", "exited"}

-----------------------------------------------------------------------------
(* Properties of the GC directory (SpecFs) *)

\* The entries under the GC directory, reached through real directories only.
UnderRoot(f, sl) ==
    \/ Parent(sl) = "gc"
    \/ Parent(sl) = "gc/sub" /\ f["gc/sub"].kind = "dir"

Swept == fsop.op = "sweep"

\* C9 (as claimed): a sweep classifies every symlink under the root, whatever its
\* target is: with the target missing it is deleted and listed as removed, with
\* the target existing (file or directory) it is kept and listed as active;
\* afterwards no dangling symlink remains under the root, and nothing that is
\* not a symlink under the root is touched.
C9_SweepClassifiesEverySymlink ==
    Swept =>
        /\ \A sl \in Slots :
              (UnderRoot(fsop.fs0, sl) /\ IsLink(fsop.fs0, sl)) =>
                  IF store[fsop.fs0[sl].target] = "missing"
                      THEN /\ fs[sl] = NoEntry
                           /\ sl \in removed_symlinks /\ sl \notin to_gc
                      ELSE /\ fs[sl] = fsop.fs0[sl]
                           /\ sl \in to_gc /\ sl \notin removed_symlinks
        /\ \A sl \in Slots :
              (UnderRoot(fs, sl) /\ IsLink(fs, sl)) => store[fs[sl].target] # "missing"
        /\ \A sl \in Slots :
              ~(UnderRoot(fsop.fs0, sl) /\ IsLink(fsop.fs0, sl)) => fs[sl] = fsop.fs0[sl]
        /\ to_gc \cup removed_symlinks \subseteq
              {sl \in Slots : UnderRoot(fsop.fs0, sl) /\ IsLink(fsop.fs0, sl)}

\* C10: a completed registration of store_path under name leaves the symlink of
\* this invocation for that name pointing at store_path, whatever was there
\* before (nothing, a valid or a dangling symlink), and changes no other entry
\* than that symlink and its lock file: a series of registrations under one
\* name leaves one symlink, pointing at the last path registered.
C10_RegisterPointsAtLastPath ==
    (fsop.op = "register" /\ fsop.ok) =>
        /\ fs[Dst(fsop.name)] = LinkTo(fsop.path)
        /\ \A sl \in Slots \ {Dst(fsop.name), LockFile(Dst(fsop.name))} :
              fs[sl] = fsop.fs0[sl]
        /\ fs[LockFile(Dst(fsop.name))].kind # "link"

C10_Witness ==
    /\ fsop.op = "register" /\ fsop.ok
    /\ fsop.name = "ci" /\ fsop.path = "st/b"
    /\ fsop.fs0["gc/1-ci"] = LinkTo("st/a")
    /\ fs["gc/1-ci"] = LinkTo("st/b")
    /\ Cardinality({sl \in {"gc/1-ci", "gc/1-ci.lock"} : IsLink(fs, sl)}) = 1

-----------------------------------------------------------------------------
(* Properties of the concurrent registration (SpecConc) *)

InSection(r) == reg[r].pc \in {"unlink", "symlink"}

ConcFinished ==
    /\ \A r \in Registrars : reg[r].pc \in {"done", "timeout", "failed"}
    /\ sweep.pc \in {"done", "failed"}

\* C11 (as claimed): registration is race-free against other registrars and
\* against a sweep: at most one registrar of a symlink is between its unlink and
\* its symlink_to; a registrar that timed out on the lock has not touched the
\* symlink; neither a registrar nor the sweep fails on an entry the other one
\* changed; the sweep never removes a symlink whose target exists; and once
\* all have finished, with every store path still there, each symlink with a
\* successful registration exists and points at such a registration's path.
C11_RegistrationRaceFree ==
    /\ \A r1, r2 \in Registrars :
          (r1 # r2 /\ InSection(r1) /\ InSection(r2)) => reg[r1].name # reg[r2].name
    /\ \A r \in Registrars : reg[r].pc = "timeout" => ~reg[r].touched
    /\ \A r \in Registrars : reg[r].pc # "failed"
    /\ sweep.pc # "failed"
    /\ ~sweep.hit
    /\ (ConcFinished /\ \A obj \in StoreObjs : store[obj] # "missing") =>
          \A name \in RegNames :
              (\E r \in Registrars : reg[r].name = name /\ reg[r].pc = "done") =>
                  \E r \in Registrars :
                      /\ reg[r].name = name /\ reg[r].pc = "done"
                      /\ fs[Dst(name)] = LinkTo(reg[r].path)

-----------------------------------------------------------------------------
(* Properties of the process runner (SpecProc) *)

Stopped == procop.now.op = "stop"

\* The last stop signalled a process of this user, which got the signal.
Delivered ==
    /\ procop.file0.exists
    /\ procop.procs0[IntOf(procop.file0.text)] \in {"sup", "own"}

\* C12: stop without a marker file fails as NotRunning with exit status 1 and
\* signals nothing; with a marker file it signals the recorded pid; when no
\* process has that pid it fails as NotFound with exit status 1; the marker
\* file is removed if and only if the signal was delivered, and after a failed
\* stop it is exactly as it was.
C12_StopRemovesMarkerIffDelivered ==
    Stopped =>
        /\ ~procop.file0.exists =>
              /\ procop.now.why = "NotRunning" /\ procop.now.status = 1
              /\ procop.now.pid = 0
              /\ ~pidfile.exists
        /\ procop.file0.exists =>
              /\ procop.now.pid = IntOf(procop.file0.text)
              /\ procop.procs0[procop.now.pid] = "free" =>
                    (procop.now.why = "NotFound" /\ procop.now.status = 1)
              /\ ~pidfile.exists <=> Delivered
        /\ ~Delivered => (pidfile = procop.file0 /\ procop.now.status # 0)

C12_Witness ==
    /\ Stopped
    /\ procop.file0.exists
    /\ procop.procs0[IntOf(procop.file0.text)] = "free"
    /\ procop.now.why = "NotFound"
    /\ pidfile = FileWith(<<1, 0>>)

\* C17: the sandbox of a test whose lifecycle has ended still exists only when
\* --debug is on and the test failed (the process is then a shell in it); the
\* sandbox of a test that passed, or that failed without --debug, is gone
\* before the next test starts and before the process exits.
C17_SandboxKeptOnlyForDebug ==
    /\ sandboxes \subseteq DOMAIN hist
    /\ \A i \in DOMAIN hist :
          (hist[i].outcome # "running" /\ i \in sandboxes) =>
              (debug /\ hist[i].outcome = "failed" /\ pc = "shell" /\ i = idx)
    /\ \A i \in DOMAIN hist :
          (hist[i].outcome = "passed" \/ (hist[i].outcome = "failed" /\ ~debug)) =>
              i \notin sandboxes
    /\ pc \in {"loop", "exited", "raised", "aborted", "crashed"} => sandboxes = {}

C17_Witness ==
    /\ pc = "shell" /\ debug
    /\ idx = 2
    /\ hist[1].outcome = "passed" /\ hist[2].outcome = "failed"
    /\ sandboxes = {2}

\* How often the requested names reach test t: once for each time it is named,
\* once for each requested tag it declares (nothing is excluded in the loop's
\* specification).
Reached(t) ==
    (IF InTests(tests, t) THEN Count(names, t) ELSE 0)
    + Cardinality({i \in DOMAIN names : HasTag(tests, t, names[i])})

Running == {i \in DOMAIN hist : hist[i].outcome = "running"}

\* C18: the selection keeps duplicates: a test reached k times is selected k
\* times; the executions follow the selection one by one, so that a run that
\* reaches the end of the loop has executed it k times; every execution under
\* way has a sandbox of its own, created for it when it started, no other
\* sandbox exists beside it, and at most one execution is under way.
C18_DuplicatesEachExecuted ==
    pc # "start" =>
        /\ \A t \in {"t1", "t2"} : Count(selected_tests, t) = Reached(t)
        /\ Len(hist) = idx
        /\ HistNames = SubSeq(selected_tests, 1, idx)
        /\ pc = "exited" => \A t \in {"t1", "t2"} : Count(HistNames, t) = Reached(t)
        /\ Cardinality(Running) <= 1
        /\ Running \subseteq {idx}
        /\ \A i \in Running : i \in sandboxes
        /\ sandboxes \subseteq {idx}
        /\ pc = "materialize" => (sandboxes = {idx} /\ Running = {idx})

C18_Witness ==
    /\ given = <<"t2", "x">>
    /\ selected_tests = <<"t2", "t2">>
    /\ pc = "exited"
    /\ Len(hist) = 2
    /\ hist[1].outcome = "passed" /\ hist[2].outcome = "passed"
    /\ hist[1].name = "t2" /\ hist[2].name = "t2"
    /\ sandboxes = {}

-----------------------------------------------------------------------------
(* Properties of run_command (SpecCmd) *)

NixWithoutDevenvNix ==
    StartsWith(rc_in.command, <<"n", "i", "x">>) /\ ~rc_in.devenv_nix

\* t is s without the whitespace around it.
Trimmed(s, t) ==
    /\ \E i \in 0..Len(s) :
          /\ t = SubSeq(s, i + 1, i + Len(t))
          /\ \A k \in 1..Len(s) : (k <= i \/ k > i + Len(t)) => s[k] \in Whitespace
    /\ t # <<>> => (t[1] \notin Whitespace /\ t[Len(t)] \notin Whitespace)

\* What run_command itself does, as the claim has it.
RunCommandContract ==
    /\ rc_out.pc = "returned" =>
          (rc_out.executed /\ rc_out.code = 0 /\ Trimmed(rc_out.stdout, rc_out.value))
    /\ (rc_out.pc # "call" /\ rc_out.executed /\ rc_out.code = 0) =>
          rc_out.pc = "returned"
    /\ (rc_out.pc # "call" /\ NixWithoutDevenvNix) =>
          /\ ~rc_out.executed /\ rc_out.code = 1
          /\ rc_out.pc \in {"exit", "terminated"}
          /\ rc_out.pc = "terminated" => rc_out.status = 1
    /\ (rc_out.pc # "call" /\ ~NixWithoutDevenvNix) => rc_out.executed
    /\ (rc_out.executed /\ rc_out.code # 0 /\ DontExit) =>
          rc_out.pc \in {"raised", "continues"}

-----------------------------------------------------------------------------
(* Properties of the test lifecycle (SpecRun) *)

InLifecycle == pc \in {"materialize", "ci", "detect", "script", "finally", "handler"}

\* C14 (as claimed): without --debug, the supervisor and the log streamer a test
\* started are gone before the next test starts or the run ends, on every way
\* out of the lifecycle: the only ones running belong to the current test,
\* whose lifecycle is still going on. (Runs in which the stop command itself
\* is cut short by a keyboard interrupt are left aside.)
C14_NoProcessOutlivesItsTest ==
    (~debug /\ ~(exc.kind = "kbd" /\ exc.at = "stop")) =>
        \A i \in supervisors \cup streamers : i = idx /\ InLifecycle

\* C15 (as claimed): a test that reached the script phase (its build and, when
\* there is one, its process start succeeded) passes if and only if its script
\* exits with status 0 or does not exist, whatever the teardown does. (Tests
\* cut short by a keyboard interrupt are left aside.)
C15_OutcomeIsScriptStatus ==
    \A i \in DOMAIN hist :
        (hist[i].script # "-" /\ hist[i].outcome \in {"passed", "failed"}) =>
            (hist[i].outcome = "passed" <=> hist[i].script = "ok")

Rank(ph) ==
    CASE ph = "materialize" -> 1
      [] ph = "build"       -> 2
      [] ph = "detect"      -> 3
      [] ph = "up"          -> 4
      [] ph = "script"      -> 5
      [] ph = "teardown"    -> 6

Did(ph) == \E k \in DOMAIN phases : phases[k] = ph

\* C16: the phases of a test come in the order materialize, build, detection,
\* process start, script, teardown, none of them twice and none before the
\* build but materialize; after a failed build nothing is started, the script
\* is not run and the test does not pass; processes are started only when the
\* marker exists and contains "-devenv-up"; and the script runs only after the
\* start, when there is one, has returned successfully.
C16_PhasesInOrder ==
    /\ \A j, k \in DOMAIN phases : j < k => Rank(phases[j]) < Rank(phases[k])
    /\ \A k \in DOMAIN phases : k > 1 => Rank(phases[k - 1]) >= Rank(phases[k]) - 2
    /\ phases # <<>> => phases[1] = "materialize"
    /\ (Did("up") \/ Did("script")) => (Did("build") /\ Did("detect"))
    /\ (phases # <<>> /\ phases[Len(phases)] = "build" /\ pc # "detect") =>
          /\ hist[idx].cmdFailed \/ hist[idx].interrupted
          /\ idx \notin supervisors \cup streamers
          /\ hist[idx].script = "-"
          /\ hist[idx].outcome # "passed"
          /\ (hist[idx].cmdFailed /\ pc # "handler") => hist[idx].outcome = "failed"
          /\ pc \notin {"script", "finally"}
    /\ Did("up") =>
          /\ marker.exists
          /\ \E k \in DOMAIN marker.text : marker.text[k] = "-devenv-up"
    /\ (idx \in supervisors /\ Len(hist) = idx /\ hist[idx].outcome = "running") => Did("up")
    /\ (Did("script") \/ pc \in {"script", "finally"}) =>
          /\ has_processes <=> Did("up")
          /\ has_processes => p
          /\ ~hist[idx].cmdFailed \/ hist[idx].script = "fail" \/ Did("teardown")

C16_Witness ==
    /\ phases = <<"materialize", "build", "detect", "up", "script", "teardown">>
    /\ marker.text = <<"x", "-devenv-up">>
    /\ hist[idx].outcome = "passed"
    /\ idx = 2


-----------------------------------------------------------------------------
(* Properties of the process runner, continued (SpecProc) *)

Started == procop.now.op = "start" /\ procop.now.ok

\* C19: a detached start spawns the supervisor wrapper under a pid that was
\* free and records that pid in the marker file; a stop that directly follows
\* it signals exactly that process and leaves no marker file; whatever detached
\* starts and stops came before, the marker file, when present, holds the pid
\* of the supervisor started last; a start whose procfile script is empty exits
\* with status 1, spawns nothing and leaves the marker file alone.
C19_MarkerHoldsLastStarted ==
    /\ Started =>
          /\ procop.procs0[procop.now.pid] = "free"
          /\ procs = [procop.procs0 EXCEPT ![procop.now.pid] = "sup"]
          /\ pidfile.exists /\ IntOf(pidfile.text) = procop.now.pid
    /\ (Stopped /\ procop.prev.op = "start" /\ procop.prev.ok) =>
          /\ procop.now.pid = procop.prev.pid
          /\ procop.procs0[procop.now.pid] = "sup"
          /\ procop.now.ok
          /\ ~pidfile.exists
    /\ pidfile.exists => (last_started # 0 /\ IntOf(pidfile.text) = last_started)
    /\ (procop.now.op = "start" /\ procop.now.why = "empty") =>
          /\ procop.now.status = 1
          /\ procs = procop.procs0
          /\ pidfile = procop.file0

C19_Witness ==
    /\ Stopped /\ procop.now.ok
    /\ procop.prev.op = "start" /\ procop.prev.pid = 10
    /\ procs[11] = "sup" /\ procs[10] = "sup"
    /\ last_started = 10
    /\ ~pidfile.exists

-----------------------------------------------------------------------------
(* Properties of the gc command (SpecGc) *)

\* C20 (as claimed): gc runs the first sweep, the engine deletion of exactly the
\* first sweep's active set and the second sweep, in that order; the count it
\* reports is the first sweep's number of active symlinks minus the second
\* sweep's, which (nothing else touching the GC directory meanwhile) is the
\* number of symlinks the second sweep deleted and is not negative; when the
\* engine deletion fails there is no second sweep and no report.
C20_ReportIsSecondSweepsDeletions ==
    gcrun.op = "gc" =>
        /\ gcrun.asked = Active(gcrun.fs0, gcrun.store0, GcRoots)
        /\ gcrun.ok =>
              /\ gcrun.steps = <<"sweep", "delete", "sweep">>
              /\ gcrun.reported =
                    Cardinality(gcrun.asked) - Cardinality(gcrun.after_gc)
              /\ gcrun.reported = Cardinality(gcrun.removed)
              /\ gcrun.reported >= 0
        /\ ~gcrun.ok =>
              /\ gcrun.steps = <<"sweep", "delete">>
              /\ gcrun.reported = -1
              /\ cli = "exited"

=============================================================================
